---------------------------- MODULE Spec2Model ----------------------------
(***************************************************************************)
(* Model of mmedit/datasets/pipelines/loading.py: the pipeline components  *)
(* LoadImageFromFile, LoadImageFromFileList, LoadAlpha, RandomLoadResizeBg *)
(* and LoadMask, each a callable that mutates the sample record `results`. *)
(*                                                                         *)
(* One behaviour follows one component instance (obj) from its             *)
(* construction through a sequence of calls; the pipeline driver hands it  *)
(* sample records (NewSample).                                             *)
(***************************************************************************)
EXTENDS Integers, Sequences, FiniteSets, TLC

VARIABLES
    obj,        \* the component instance (self), NoObj when __init__ raised
    results,    \* the sample record (a dict: key -> value)
    err,        \* what the last operation raised, NoErr when it returned
    called,     \* the last step was a __call__ of obj
    ncalls,     \* number of __call__ invocations on obj so far
    nclients,   \* number of FileClient(...) constructions made by obj so far
    drawn,      \* index drawn by np.random.randint in the last call, -1 if none
    fetched,    \* paths handed to file_client.get in the last call, in order
    ctor        \* the constructor call that made obj: class and arguments

vars == <<obj, results, err, called, ncalls, nclients, drawn, fetched, ctor>>

---------------------------------------------------------------------------
(* Bounds of the model. *)

\* calls made on one instance
MaxCalls == 3
\* largest height/width of a configured mask img_shape
MaxDim == 3

---------------------------------------------------------------------------
(* Python values.  Every value is a record tagged by its type in field t. *)

PyNone == [t |-> "None"]
\* a str holding a path, as the sequence of its path segments
PyStr(segs) == [t |-> "str", segs |-> segs]
\* a pathlib.Path
PyPath(segs) == [t |-> "Path", segs |-> segs]
PyList(items) == [t |-> "list", items |-> items]
PyTuple(items) == [t |-> "tuple", items |-> items]
\* a numpy array: its shape and, per channel, the value of that channel's plane
NdArray(shape, data) == [t |-> "ndarray", shape |-> shape, data |-> data]
\* a mask synthesised in memory: its shape and the set of its hole pixels
MaskArray(shape, holes) == [t |-> "ndarray", shape |-> shape, holes |-> holes]

NoErr == [type |-> "none", msg |-> <<>>]
Raise(type, msg) == [type |-> type, msg |-> msg]
NoObj == [cls |-> "none"]

\* str(v)
str(v) ==
    CASE v.t = "str" -> v
      [] v.t = "Path" -> PyStr(v.segs)
      [] OTHER -> PyStr(<<"repr", v.t>>)

\* Path(v).name: the final path segment
PathName(v) == IF Len(v.segs) = 0 THEN "" ELSE v.segs[Len(v.segs)]

\* Path(a).joinpath(name); joining the empty string leaves the path as it is
JoinPath(segs, name) == IF name = "" THEN PyPath(segs) ELSE PyPath(Append(segs, name))

\* dict operations
HasKey(d, k) == k \in DOMAIN d
SetItem(d, k, v) == [x \in (DOMAIN d) \cup {k} |-> IF x = k THEN v ELSE d[x]]

---------------------------------------------------------------------------
(* The storage backend and the decoder (external collaborators). *)

\* the files the backend holds: decoded height, width and channel planes
Files ==
    (<<"data", "a.png">> :> [gray |-> FALSE, h |-> 2, w |-> 1, planes |-> <<10, 20, 60>>]) @@
    (<<"data", "g.png">> :> [gray |-> TRUE, h |-> 1, w |-> 2, planes |-> <<40>>]) @@
    (<<"data", "e.png">> :> [gray |-> TRUE, h |-> 0, w |-> 2, planes |-> <<0>>]) @@
    (<<"bg", "b1.png">> :> [gray |-> FALSE, h |-> 3, w |-> 3, planes |-> <<1, 2, 3>>]) @@
    (<<"bg", "b2.png">> :> [gray |-> TRUE, h |-> 1, w |-> 1, planes |-> <<7>>]) @@
    (<<"masks", "m1.png">> :> [gray |-> TRUE, h |-> 2, w |-> 2, planes |-> <<255>>]) @@
    (<<"masks", "m2.png">> :> [gray |-> FALSE, h |-> 2, w |-> 3, planes |-> <<255, 0, 128>>])

\* FileClient(io_backend, **kwargs): the n-th client this instance constructs
FileClient(io_backend, n) == [t |-> "FileClient", backend |-> io_backend, id |-> n]

\* file_client.get(filepath): filepath is a str or a Path
CanGet(filepath) == filepath.segs \in DOMAIN Files
Get(filepath) == Files[filepath.segs]

\* the grey value cv2 computes from the (B, G, R) planes
Luma(p) == (114 * p[1] + 587 * p[2] + 299 * p[3]) \div 1000

\* mmcv.imfrombytes(img_bytes, flag)
imfrombytes(f, flag) ==
    CASE flag = "color" ->
            NdArray(<<f.h, f.w, 3>>,
                    IF f.gray THEN <<f.planes[1], f.planes[1], f.planes[1]>> ELSE f.planes)
      [] flag = "grayscale" ->
            NdArray(<<f.h, f.w>>, IF f.gray THEN f.planes ELSE <<Luma(f.planes)>>)
      [] OTHER ->
            IF f.gray THEN NdArray(<<f.h, f.w>>, f.planes)
            ELSE NdArray(<<f.h, f.w, Len(f.planes)>>, f.planes)

ndim(a) == Len(a.shape)

\* np.expand_dims(img, axis=2) of a 2-D array
expand_dims(a) == NdArray(Append(a.shape, 1), a.data)

\* faulty variant: the last channel is kept instead of the first
FirstChannel_last(a) == NdArray(<<a.shape[1], a.shape[2], 1>>, <<a.data[Len(a.data)]>>)

\* mask[:, :, 0:1] of a 3-D array
FirstChannel(a) == NdArray(<<a.shape[1], a.shape[2], 1>>, <<a.data[1]>>)

\* mmcv.imresize(img, (w, h), interpolation='bicubic'); a plane of one value
\* keeps that value under interpolation
imresize(a, w, h) == NdArray(<<h, w>> \o SubSeq(a.shape, 3, Len(a.shape)), a.data)

Flags == {"color", "grayscale", "unchanged"}

---------------------------------------------------------------------------
(* What a __call__ did: the instance and the record after it, what it     *)
(* raised, whether it constructed a FileClient, the index it drew and the *)
(* paths it fetched.                                                      *)

Outcome(self, res, e, built, idx, gets) ==
    [self |-> self, results |-> res, err |-> e, built |-> built,
     drawn |-> idx, fetched |-> gets]

\* faulty variant: the guard on self.file_client is dropped
NeedsClient_always(self) == TRUE

\* if self.file_client is None: self.file_client = FileClient(...)
NeedsClient(self) == self.file_client = PyNone
EnsureClient(self) ==
    IF NeedsClient(self)
    THEN [self EXCEPT !.file_client = FileClient(self.io_backend, nclients + 1)]
    ELSE self

\* f'{key}_path', f'{key}_ori_shape', f'ori_{key}'
KeyPath(key) == key \o "_path"
KeyOriShape(key) == key \o "_ori_shape"
OriKey(key) == "ori_" \o key

---------------------------------------------------------------------------
(* LoadImageFromFile and its subclasses. *)

\* LoadImageFromFile.__init__, inherited by LoadImageFromFileList and LoadAlpha
LoadImageFromFile_init(cls, io_backend, key, flag, save_original_img) ==
    [cls |-> cls, io_backend |-> io_backend, key |-> key, flag |-> flag,
     save_original_img |-> save_original_img, file_client |-> PyNone]

\* faulty variant: the 2-D case is not expanded
LoadImg_raw(filepath, flag) == imfrombytes(Get(filepath), flag)

\* img = imfrombytes(...); if img.ndim == 2: img = np.expand_dims(img, axis=2)
LoadImg(filepath, flag) ==
    LET img == imfrombytes(Get(filepath), flag)
    IN  IF ndim(img) = 2 THEN expand_dims(img) ELSE img

\* LoadImageFromFile.__call__
LoadImageFromFile_call(self, res) ==
    LET built == NeedsClient(self)
        self1 == EnsureClient(self)
        kp == KeyPath(self.key)
    IN  IF ~HasKey(res, kp)
        THEN Outcome(self1, res, Raise("KeyError", <<kp>>), built, -1, <<>>)
        ELSE
        LET filepath == str(res[kp])
        IN  IF ~CanGet(filepath)
            THEN Outcome(self1, res, Raise("IOError", filepath.segs), built, -1, <<filepath>>)
            ELSE
            LET img == LoadImg(filepath, self.flag)
                r1 == SetItem(res, self.key, img)
                r2 == SetItem(r1, kp, filepath)
                r3 == SetItem(r2, KeyOriShape(self.key), PyTuple(img.shape))
                r4 == IF self.save_original_img THEN SetItem(r3, OriKey(self.key), img) ELSE r3
            IN  Outcome(self1, r4, NoErr, built, -1, <<filepath>>)

\* the paths the loop of LoadImageFromFileList.__call__ fetches: all of them, or
\* those up to the first one the backend cannot resolve
RECURSIVE FetchedPrefix(_)
FetchedPrefix(paths) ==
    IF paths = <<>> THEN <<>>
    ELSE IF ~CanGet(Head(paths)) THEN <<Head(paths)>>
    ELSE <<Head(paths)>> \o FetchedPrefix(Tail(paths))

\* faulty variant: tuples pass the type check too
IsList_or_tuple(v) == v.t \in {"list", "tuple"}

\* isinstance(filepaths, list)
IsList(v) == v.t = "list"

\* LoadImageFromFileList.__call__
LoadImageFromFileList_call(self, res) ==
    LET built == NeedsClient(self)
        self1 == EnsureClient(self)
        kp == KeyPath(self.key)
    IN  IF ~HasKey(res, kp)
        THEN Outcome(self1, res, Raise("KeyError", <<kp>>), built, -1, <<>>)
        ELSE IF ~IsList(res[kp])
        THEN Outcome(self1, res, Raise("TypeError", <<"filepath should be list, but got", res[kp].t>>),
                     built, -1, <<>>)
        ELSE
        LET filepaths == [i \in 1..Len(res[kp].items) |-> str(res[kp].items[i])]
            gets == FetchedPrefix(filepaths)
        IN  IF \E i \in 1..Len(filepaths) : ~CanGet(filepaths[i])
            THEN Outcome(self1, res, Raise("IOError", gets[Len(gets)].segs), built, -1, gets)
            ELSE
            LET imgs == [i \in 1..Len(filepaths) |-> LoadImg(filepaths[i], self.flag)]
                shapes == [i \in 1..Len(filepaths) |-> PyTuple(imgs[i].shape)]
                r1 == SetItem(res, self.key, PyList(imgs))
                r2 == SetItem(r1, kp, PyList(filepaths))
                r3 == SetItem(r2, KeyOriShape(self.key), PyList(shapes))
                r4 == IF self.save_original_img
                      THEN SetItem(r3, OriKey(self.key), PyList(imgs)) ELSE r3
            IN  Outcome(self1, r4, NoErr, built, -1, gets)

\* faulty variant: the assertion is dropped
AlphaValid_any(alpha) == TRUE

\* assert alpha.shape[0]
AlphaValid(alpha) == alpha.shape[1] # 0

\* LoadAlpha.__call__
LoadAlpha_call(self, res) ==
    LET built == NeedsClient(self)
        self1 == EnsureClient(self)
        kp == KeyPath(self.key)
    IN  IF ~HasKey(res, kp)
        THEN Outcome(self1, res, Raise("KeyError", <<kp>>), built, -1, <<>>)
        ELSE
        LET filepath == str(res[kp])
        IN  IF ~CanGet(filepath)
            THEN Outcome(self1, res, Raise("IOError", filepath.segs), built, -1, <<filepath>>)
            ELSE
            LET alpha == imfrombytes(Get(filepath), self.flag)
                img_name == PathName(res[kp])
            IN  IF ~AlphaValid(alpha)
                THEN Outcome(self1, res,
                             Raise("AssertionError", <<img_name, "'s alpha is not valid">>),
                             built, -1, <<filepath>>)
                ELSE
                LET r1 == SetItem(res, "alpha", alpha)
                    r2 == SetItem(r1, "img_name", PyStr(<<img_name>>))
                    r3 == SetItem(r2, "ori_alpha", alpha)
                    r4 == SetItem(r3, "ori_shape", PyTuple(alpha.shape))
                    r5 == SetItem(r4, "img_shape", PyTuple(alpha.shape))
                IN  Outcome(self1, r5, NoErr, built, -1, <<filepath>>)

---------------------------------------------------------------------------
(* RandomLoadResizeBg. *)

\* list(mmcv.scandir(bg_dir)): the file names of a directory, in a fixed order
scandir(bg_dir) ==
    CASE bg_dir = <<"bg">> -> <<"b1.png", "b2.png">>
      [] bg_dir = <<"masks">> -> <<"m1.png", "m2.png">>
      [] OTHER -> <<>>

\* RandomLoadResizeBg.__init__
RandomLoadResizeBg_init(bg_dir, io_backend, flag) ==
    [cls |-> "RandomLoadResizeBg", bg_dir |-> bg_dir, bg_list |-> scandir(bg_dir),
     io_backend |-> io_backend, flag |-> flag, file_client |-> PyNone]

\* np.random.randint(low, high): the values it can return; none when low >= high,
\* where it raises ValueError
randint(low, high) == low .. (high - 1)

\* h, w = v: v unpacks when it is a sequence of exactly two items
Unpacks2(v) == v.t \in {"tuple", "list"} /\ Len(v.items) = 2

\* RandomLoadResizeBg.__call__, idx the index np.random.randint returns
RandomLoadResizeBg_call(self, res, idx) ==
    LET built == NeedsClient(self)
        self1 == EnsureClient(self)
    IN  IF ~HasKey(res, "img_shape")
        THEN Outcome(self1, res, Raise("KeyError", <<"img_shape">>), built, -1, <<>>)
        ELSE IF ~Unpacks2(res["img_shape"])
        THEN Outcome(self1, res, Raise("ValueError", <<"values to unpack">>), built, -1, <<>>)
        ELSE IF randint(0, Len(self.bg_list)) = {}
        THEN Outcome(self1, res, Raise("ValueError", <<"high <= 0">>), built, -1, <<>>)
        ELSE
        LET h == res["img_shape"].items[1]
            w == res["img_shape"].items[2]
            filepath == JoinPath(self.bg_dir, self.bg_list[idx + 1])
        IN  IF ~CanGet(filepath)
            THEN Outcome(self1, res, Raise("IOError", filepath.segs), built, idx, <<filepath>>)
            ELSE IF h <= 0 \/ w <= 0
            THEN Outcome(self1, res, Raise("cv2.error", <<"dsize">>), built, idx, <<filepath>>)
            ELSE
            LET img == imfrombytes(Get(filepath), self.flag)
                bg == imresize(img, w, h)
            IN  Outcome(self1, SetItem(res, "bg", bg), NoErr, built, idx, <<filepath>>)

---------------------------------------------------------------------------
(* LoadMask. *)

PyDict(d) == [t |-> "dict", d |-> d]

\* the manifest files on disk: each a sequence of lines, each line the sequence
\* of its words and of the blanks (" ") and line end ("\n") between them
ManifestFiles ==
    ("empty.txt" :> <<>>) @@
    ("one.txt" :> << <<"m1.png", "\n">> >>) @@
    ("two.txt" :> << <<"m1.png", "\n">>, <<" ", "m2.png", " ", "7", "\n">> >>) @@
    ("three.txt" :> << <<"m2.png", " ", " ", "x", "\n">>, <<"\n">>, <<"gone.png">> >>)

IsSpace(c) == c \in {" ", "\n"}

\* line.strip()
RECURSIVE LStrip(_)
LStrip(line) ==
    IF line # <<>> /\ IsSpace(Head(line)) THEN LStrip(Tail(line)) ELSE line
RECURSIVE RStrip(_)
RStrip(line) ==
    IF line # <<>> /\ IsSpace(line[Len(line)])
    THEN RStrip(SubSeq(line, 1, Len(line) - 1)) ELSE line
strip(line) == RStrip(LStrip(line))

\* line.strip().split(' ')[0]: the text before the first blank, '' for a blank line
FirstToken(line) ==
    LET l == strip(line) IN IF l = <<>> \/ l[1] = " " THEN "" ELSE l[1]

\* LoadMask.__init__ with LoadMask._init_info: the instance, or what it raised
LoadMask_init(mask_mode, mask_config) ==
    IF mask_config # PyNone /\ mask_config.t # "dict"
    THEN [self |-> NoObj, err |-> Raise("AssertionError", <<"mask_config">>)]
    ELSE
    LET cfg == IF mask_config = PyNone THEN <<>> ELSE mask_config.d
        base == [cls |-> "LoadMask", mask_mode |-> mask_mode, mask_config |-> cfg]
        KeyErr(k) == [self |-> NoObj, err |-> Raise("KeyError", <<k>>)]
    IN  IF mask_mode # "set" THEN [self |-> base, err |-> NoErr]
        ELSE IF ~HasKey(cfg, "mask_list_file") THEN KeyErr("mask_list_file")
        ELSE IF cfg["mask_list_file"] \notin DOMAIN ManifestFiles
        THEN [self |-> NoObj, err |-> Raise("FileNotFoundError", <<cfg["mask_list_file"]>>)]
        ELSE
        LET lines == ManifestFiles[cfg["mask_list_file"]]
        IN  IF lines # <<>> /\ ~HasKey(cfg, "prefix") THEN KeyErr("prefix")
            ELSE IF ~HasKey(cfg, "io_backend") THEN KeyErr("io_backend")
            ELSE IF ~HasKey(cfg, "flag") THEN KeyErr("flag")
            ELSE IF ~HasKey(cfg, "file_client_kwargs") THEN KeyErr("file_client_kwargs")
            ELSE
            LET mask_list == [i \in 1..Len(lines) |->
                                 JoinPath(cfg["prefix"], FirstToken(lines[i]))]
            IN  [self |-> [cls |-> "LoadMask", mask_mode |-> mask_mode, mask_config |-> cfg,
                           mask_list |-> mask_list, mask_set_size |-> Len(mask_list),
                           io_backend |-> cfg["io_backend"], flag |-> cfg["flag"],
                           file_client_kwargs |-> cfg["file_client_kwargs"],
                           file_client |-> PyNone],
                 err |-> NoErr]

\* LoadMask._get_random_mask_from_set, mask_idx the index np.random.randint returns
LoadMask_get_random_mask_from_set(self, mask_idx) ==
    LET built == NeedsClient(self)
        self1 == EnsureClient(self)
    IN  IF randint(0, self.mask_set_size) = {}
        THEN [self |-> self1, mask |-> PyNone, err |-> Raise("ValueError", <<"low >= high">>),
              built |-> built, drawn |-> -1, fetched |-> <<>>]
        ELSE
        LET path == self.mask_list[mask_idx + 1]
        IN  IF ~CanGet(path)
            THEN [self |-> self1, mask |-> PyNone, err |-> Raise("IOError", path.segs),
                  built |-> built, drawn |-> mask_idx, fetched |-> <<path>>]
            ELSE
            LET mask == imfrombytes(Get(path), self.flag)
            IN  [self |-> self1,
                 mask |-> IF ndim(mask) = 2 THEN expand_dims(mask) ELSE FirstChannel(mask),
                 err |-> NoErr, built |-> built, drawn |-> mask_idx, fetched |-> <<path>>]

\* the pixels of an image of img_shape = (H, W)
Pixels(img_shape) == (0 .. img_shape[1] - 1) \X (0 .. img_shape[2] - 1)

\* mmedit.core.mask.random_bbox: whether it accepts the configuration
random_bbox_accepts(cfg) ==
    /\ HasKey(cfg, "img_shape") /\ HasKey(cfg, "max_bbox_shape")
    /\ cfg["max_bbox_shape"][1] >= 1 /\ cfg["max_bbox_shape"][1] <= cfg["img_shape"][1]
    /\ cfg["max_bbox_shape"][2] >= 1 /\ cfg["max_bbox_shape"][2] <= cfg["img_shape"][2]

\* mmedit.core.mask.random_bbox: the boxes (top, left, height, width) it can return
random_bbox(cfg) ==
    { PyTuple(<<top, left, h, w>>) :
        <<top, left, h, w>> \in
            { b \in (0 .. cfg["img_shape"][1]) \X (0 .. cfg["img_shape"][2]) \X
                    (1 .. cfg["max_bbox_shape"][1]) \X (1 .. cfg["max_bbox_shape"][2]) :
                b[1] + b[3] <= cfg["img_shape"][1] /\ b[2] + b[4] <= cfg["img_shape"][2] } }

\* mmedit.core.mask.bbox2mask(img_shape, bbox)
bbox2mask(img_shape, bbox) ==
    MaskArray(<<img_shape[1], img_shape[2], 1>>,
              { p \in Pixels(img_shape) :
                  /\ bbox.items[1] <= p[1] /\ p[1] < bbox.items[1] + bbox.items[3]
                  /\ bbox.items[2] <= p[2] /\ p[2] < bbox.items[2] + bbox.items[4] })

\* mmedit.core.mask.get_irregular_mask and brush_stroke_mask: the strokes drawn
\* mark some set of pixels of the configured img_shape
stroke_masks(cfg) == SUBSET Pixels(cfg["img_shape"])

\* the random choices one LoadMask.__call__ can make
NoDraw == [box |-> PyNone, holes |-> {}, idx |-> -1]
Draws(self) ==
    CASE self.mask_mode = "bbox" /\ random_bbox_accepts(self.mask_config) ->
            { [NoDraw EXCEPT !.box = b] : b \in random_bbox(self.mask_config) }
      [] self.mask_mode \in {"irregular", "ff"} /\ HasKey(self.mask_config, "img_shape") ->
            { [NoDraw EXCEPT !.holes = hs] : hs \in stroke_masks(self.mask_config) }
      [] self.mask_mode = "set" /\ self.mask_set_size > 0 ->
            { [NoDraw EXCEPT !.idx = i] : i \in randint(0, self.mask_set_size) }
      [] OTHER -> {NoDraw}

\* faulty variant: the box is written under mask_bbox as (left, top, width, height)
LoadMask_call_bbox_transposed(self, res, rnd) ==
    IF ~random_bbox_accepts(self.mask_config)
    THEN Outcome(self, res, Raise("ValueError", <<"random_bbox">>), FALSE, -1, <<>>)
    ELSE
    LET mask_bbox == rnd.box
        mask == bbox2mask(self.mask_config["img_shape"], mask_bbox)
        b == mask_bbox.items
    IN  Outcome(self, SetItem(SetItem(res, "mask_bbox", PyTuple(<<b[2], b[1], b[4], b[3]>>)),
                              "mask", mask),
                NoErr, FALSE, -1, <<>>)

\* LoadMask.__call__, branch mask_mode == 'bbox'
LoadMask_call_bbox(self, res, rnd) ==
    IF ~random_bbox_accepts(self.mask_config)
    THEN Outcome(self, res, Raise("ValueError", <<"random_bbox">>), FALSE, -1, <<>>)
    ELSE
    LET mask_bbox == rnd.box
        mask == bbox2mask(self.mask_config["img_shape"], mask_bbox)
    IN  Outcome(self, SetItem(SetItem(res, "mask_bbox", mask_bbox), "mask", mask),
                NoErr, FALSE, -1, <<>>)

\* LoadMask.__call__, branches mask_mode == 'irregular' and mask_mode == 'ff'
LoadMask_call_strokes(self, res, rnd) ==
    IF ~HasKey(self.mask_config, "img_shape")
    THEN Outcome(self, res, Raise("TypeError", <<"img_shape">>), FALSE, -1, <<>>)
    ELSE
    LET s == self.mask_config["img_shape"]
        mask == MaskArray(<<s[1], s[2], 1>>, rnd.holes)
    IN  Outcome(self, SetItem(res, "mask", mask), NoErr, FALSE, -1, <<>>)

\* LoadMask.__call__, branch mask_mode == 'set'
LoadMask_call_set(self, res, rnd) ==
    LET g == LoadMask_get_random_mask_from_set(self, rnd.idx)
    IN  IF g.err # NoErr
        THEN Outcome(g.self, res, g.err, g.built, g.drawn, g.fetched)
        ELSE Outcome(g.self, SetItem(res, "mask", g.mask), NoErr,
                     g.built, g.drawn, g.fetched)

\* faulty variant: the else branch yields an empty mask instead of raising
LoadMask_call_else_silent(self, res) ==
    Outcome(self, SetItem(res, "mask", PyNone), NoErr, FALSE, -1, <<>>)

\* LoadMask.__call__, the else branch
LoadMask_call_else(self, res) ==
    Outcome(self, res,
            Raise("NotImplementedError",
                  <<"Mask mode", self.mask_mode, "has not been implemented.">>),
            FALSE, -1, <<>>)

\* LoadMask.__call__
LoadMask_call(self, res, rnd) ==
    CASE self.mask_mode = "bbox" -> LoadMask_call_bbox(self, res, rnd)
      [] self.mask_mode = "irregular" -> LoadMask_call_strokes(self, res, rnd)
      [] self.mask_mode = "set" -> LoadMask_call_set(self, res, rnd)
      [] self.mask_mode = "ff" -> LoadMask_call_strokes(self, res, rnd)
      [] OTHER -> LoadMask_call_else(self, res)

---------------------------------------------------------------------------
(* Construction. *)

LoaderClasses == {"LoadImageFromFile", "LoadImageFromFileList", "LoadAlpha"}
KnownModes == {"bbox", "irregular", "ff", "set"}

\* the constructor calls made: class and arguments (defaults filled in where
\* an argument is left out: key='gt', flag='color', mask_mode='bbox')
LoaderCtors ==
    [cls : LoaderClasses, io_backend : {"disk"}, key : {"gt", "alpha"},
     flag : Flags, save_original_img : BOOLEAN]
BgCtors ==
    [cls : {"RandomLoadResizeBg"}, bg_dir : {<<"bg">>, <<"nobg">>},
     io_backend : {"disk"}, flag : Flags]
BboxConfigs ==
    { PyDict([img_shape |-> s, max_bbox_shape |-> m]) :
        s \in (2..MaxDim) \X (2..MaxDim), m \in {<<1, 1>>, <<1, 2>>, <<2, 2>>, <<MaxDim + 1, 1>>} }
StrokeConfigs == { PyDict([img_shape |-> <<1, 2>>]), PyDict([img_shape |-> <<2, 2>>]) }
SetConfigs ==
    { PyDict([mask_list_file |-> f, prefix |-> <<"masks">>, io_backend |-> "disk",
              flag |-> fl, file_client_kwargs |-> <<>>]) :
        f \in (DOMAIN ManifestFiles) \cup {"absent.txt"}, fl \in Flags }
    \cup { PyDict([mask_list_file |-> "one.txt", prefix |-> <<"masks">>]) }
MaskCtors ==
    { [cls |-> "LoadMask", mask_mode |-> "bbox", mask_config |-> c] :
        c \in BboxConfigs \cup {PyNone} }
    \cup { [cls |-> "LoadMask", mask_mode |-> m, mask_config |-> c] :
        m \in {"irregular", "ff"}, c \in StrokeConfigs }
    \cup { [cls |-> "LoadMask", mask_mode |-> "set", mask_config |-> c] : c \in SetConfigs }
    \cup { [cls |-> "LoadMask", mask_mode |-> m, mask_config |-> c] :
        m \in {"file", "BBOX"}, c \in {PyNone, PyDict([img_shape |-> <<2, 2>>]), PyList(<<>>)} }

\* cls(**arguments): the instance, or what the constructor raised
Construct(c) ==
    CASE c.cls \in LoaderClasses ->
            [self |-> LoadImageFromFile_init(c.cls, c.io_backend, c.key, c.flag,
                                             c.save_original_img),
             err |-> NoErr]
      [] c.cls = "RandomLoadResizeBg" ->
            [self |-> RandomLoadResizeBg_init(c.bg_dir, c.io_backend, c.flag), err |-> NoErr]
      [] OTHER -> LoadMask_init(c.mask_mode, c.mask_config)

Init ==
    /\ ctor \in LoaderCtors \cup BgCtors \cup MaskCtors
    /\ obj = Construct(ctor).self
    /\ err = Construct(ctor).err
    /\ results = <<>>
    /\ called = FALSE
    /\ ncalls = 0
    /\ nclients = 0
    /\ drawn = -1
    /\ fetched = <<>>

---------------------------------------------------------------------------
(* The sample records the pipeline driver hands to a component. *)

PathA == <<"data", "a.png">>
PathG == <<"data", "g.png">>
PathE == <<"data", "e.png">>
PathGone == <<"data", "gone.png">>

\* values found under '{key}_path'
PathValues ==
    { PyStr(PathA), PyPath(PathA), PyStr(PathG), PyPath(PathE), PyStr(PathGone),
      PyList(<<>>), PyList(<<PyStr(PathA), PyPath(PathG)>>),
      PyList(<<PyStr(PathG), PyStr(PathGone), PyStr(PathA)>>),
      PyTuple(<<PyStr(PathA), PyStr(PathG)>>) }

LoaderSamples == { k :> v : k \in {"gt_path", "alpha_path"}, v \in PathValues }

\* the img_shape values a LoadAlpha stage leaves in the record, for every flag
AlphaShapes ==
    { LoadAlpha_call(LoadImageFromFile_init("LoadAlpha", "disk", "alpha", fl, FALSE),
                     "alpha_path" :> v).results["img_shape"] :
        fl \in Flags, v \in {PyStr(PathA), PyStr(PathG)} }

BgSamples == { <<>> } \cup { "img_shape" :> s : s \in AlphaShapes }

MaskSamples == { <<>>, "gt_path" :> PyStr(PathA) }

Samples(self) ==
    CASE self.cls \in LoaderClasses -> LoaderSamples
      [] self.cls = "RandomLoadResizeBg" -> BgSamples
      [] OTHER -> MaskSamples

---------------------------------------------------------------------------
(* Actions. *)

\* the driver starts the next sample
NewSample ==
    /\ obj.cls # "none"
    /\ \E r \in Samples(obj) : results' = r
    /\ results' # results
    /\ err' = NoErr
    /\ called' = FALSE
    /\ drawn' = -1
    /\ fetched' = <<>>
    /\ UNCHANGED <<obj, ncalls, nclients, ctor>>

\* the effect of a __call__ with outcome o
Apply(o) ==
    /\ obj' = o.self
    /\ results' = o.results
    /\ err' = o.err
    /\ called' = TRUE
    /\ ncalls' = ncalls + 1
    /\ nclients' = nclients + (IF o.built THEN 1 ELSE 0)
    /\ drawn' = o.drawn
    /\ fetched' = o.fetched
    /\ UNCHANGED ctor

CallLoadImageFromFile ==
    /\ obj.cls = "LoadImageFromFile"
    /\ ncalls < MaxCalls
    /\ Apply(LoadImageFromFile_call(obj, results))

CallLoadImageFromFileList ==
    /\ obj.cls = "LoadImageFromFileList"
    /\ ncalls < MaxCalls
    /\ Apply(LoadImageFromFileList_call(obj, results))

CallLoadAlpha ==
    /\ obj.cls = "LoadAlpha"
    /\ ncalls < MaxCalls
    /\ Apply(LoadAlpha_call(obj, results))

CallRandomLoadResizeBg ==
    /\ obj.cls = "RandomLoadResizeBg"
    /\ ncalls < MaxCalls
    /\ \E idx \in (IF obj.bg_list = <<>> THEN {-1} ELSE randint(0, Len(obj.bg_list))) :
           Apply(RandomLoadResizeBg_call(obj, results, idx))

CallLoadMask ==
    /\ obj.cls = "LoadMask"
    /\ ncalls < MaxCalls
    /\ \E rnd \in Draws(obj) : Apply(LoadMask_call(obj, results, rnd))

Next ==
    \/ NewSample
    \/ CallLoadImageFromFile
    \/ CallLoadImageFromFileList
    \/ CallLoadAlpha
    \/ CallRandomLoadResizeBg
    \/ CallLoadMask

Spec == Init /\ [][Next]_vars

---------------------------------------------------------------------------
(* Properties. *)

IsLoader(o) == o.cls \in LoaderClasses
IsBg(o) == o.cls = "RandomLoadResizeBg"
IsMask(o) == o.cls = "LoadMask"
IsSetMask(o) == IsMask(o) /\ o.mask_mode = "set"
OwnsClient(o) == IsLoader(o) \/ IsBg(o) \/ IsSetMask(o)
Returned == called /\ err = NoErr
Failed == called /\ err # NoErr

\* C1: in each of the four components that own a storage client
\* (LoadImageFromFile and its subclasses, RandomLoadResizeBg, LoadMask in 'set'
\* mode) the client is unset until the first __call__, and from the first
\* __call__ on, whether calls return or raise, it is the first client
\* constructed and the only one: it is never rebuilt and never unset.
C1_ClientBuiltOnceOnFirstCall ==
    OwnsClient(obj) =>
        /\ ncalls = 0 => (obj.file_client = PyNone /\ nclients = 0)
        /\ ncalls > 0 => (obj.file_client = FileClient(obj.io_backend, 1) /\ nclients = 1)

\* C1 witness: a 'set' LoadMask whose second or later call raised after the
\* client had been built by an earlier call.
C1_Witness ==
    /\ IsSetMask(obj) /\ ncalls >= 2 /\ Failed /\ err.type = "IOError"
    /\ obj.file_client = FileClient(obj.io_backend, 1)

\* the manifest a 'set' constructor call names exists and has no entry
EmptyManifestCtor ==
    /\ ctor.cls = "LoadMask" /\ ctor.mask_mode = "set"
    /\ HasKey(ctor.mask_config.d, "flag")
    /\ ctor.mask_config.d["mask_list_file"] \in DOMAIN ManifestFiles
    /\ ManifestFiles[ctor.mask_config.d["mask_list_file"]] = <<>>

\* C2 (as claimed): constructing LoadMask in 'set' mode from a manifest with
\* zero entries raises at construction, and with a manifest of N > 0 entries
\* every draw uses an index in [0, N).
C2_EmptyManifestFailsAtConstruction ==
    /\ EmptyManifestCtor => (obj.cls = "none" /\ err # NoErr)
    /\ (IsSetMask(obj) /\ called /\ obj.mask_set_size > 0) =>
           (drawn >= 0 /\ drawn < obj.mask_set_size)

\* the key and the shape keys a loader writes its image under
ImageKey(o) == IF o.cls = "LoadAlpha" THEN "alpha" ELSE o.key
ShapeKeys(o) == IF o.cls = "LoadAlpha" THEN {"ori_shape", "img_shape"} ELSE {KeyOriShape(o.key)}
\* what the decoder returned for the i-th path fetched in the last call
Decoded(i) == imfrombytes(Get(fetched[i]), obj.flag)
\* the 3-D, channel-last form of a decoded array
ChannelLast(raw) == IF ndim(raw) = 2 THEN NdArray(Append(raw.shape, 1), raw.data) ELSE raw

\* the last call stored, under the image key and the shape keys, the arrays
\* given by Stored applied to what the decoder returned
Stored(raw, expand) == IF expand THEN ChannelLast(raw) ELSE raw
StoresAs(expand) ==
    IF obj.cls = "LoadImageFromFileList"
    THEN /\ Len(results[ImageKey(obj)].items) = Len(fetched)
         /\ \A i \in 1..Len(fetched) :
               /\ results[ImageKey(obj)].items[i] = Stored(Decoded(i), expand)
               /\ \A k \in ShapeKeys(obj) :
                      results[k].items[i] = PyTuple(Stored(Decoded(i), expand).shape)
    ELSE /\ results[ImageKey(obj)] = Stored(Decoded(1), expand)
         /\ \A k \in ShapeKeys(obj) : results[k] = PyTuple(Stored(Decoded(1), expand).shape)

\* C3 (as claimed): every loader variant, LoadAlpha included, stores only 3-D
\* channel-last arrays: a 2-D decode (H, W) is stored as (H, W, 1) and the
\* shape keys carry that 3-D shape.
C3_AllLoadersStore3D ==
    (IsLoader(obj) /\ Returned) => StoresAs(TRUE)

\* C3 (amended): LoadImageFromFile and LoadImageFromFileList store only 3-D
\* channel-last arrays, a 2-D decode (H, W) stored as (H, W, 1) with the
\* shape key carrying that shape; LoadAlpha stores the decoded array as the
\* decoder returned it, so a 2-D decode stays (H, W) under alpha, ori_shape
\* and img_shape.
C3_BaseAndListLoadersStore3D ==
    (IsLoader(obj) /\ Returned) =>
        IF obj.cls = "LoadAlpha" THEN StoresAs(FALSE) ELSE StoresAs(TRUE)

\* C3 witness: the list loader returned after the decoder gave a 2-D array.
C3_Witness ==
    /\ obj.cls = "LoadImageFromFileList" /\ Returned /\ Len(fetched) >= 2
    /\ Decoded(1).shape = <<2, 1>>
    /\ results[obj.key].items[1].shape = <<2, 1, 1>>

AlphaKeys == {"alpha", "img_name", "ori_alpha", "ori_shape", "img_shape"}

\* C4 (as claimed): however LoadAlpha is constructed, a call on a record that
\* holds alpha_path and no other path key reads the path from alpha_path and,
\* when it returns, has written alpha, img_name, ori_alpha, ori_shape and
\* img_shape.
C4_AlphaLoaderReadsAlphaPath ==
    (obj.cls = "LoadAlpha" /\ called /\ HasKey(results, "alpha_path")
        /\ ~HasKey(results, "gt_path")) =>
        /\ err.type # "KeyError"
        /\ fetched = <<str(results["alpha_path"])>>
        /\ Returned => AlphaKeys \subseteq DOMAIN results

\* a LoadAlpha call on this record decodes an array whose first dimension is 0
DecodesZeroHeight(o, res) ==
    /\ HasKey(res, KeyPath(o.key))
    /\ CanGet(str(res[KeyPath(o.key)]))
    /\ imfrombytes(Get(str(res[KeyPath(o.key)])), o.flag).shape[1] = 0

\* C5: a LoadAlpha call that decodes an array whose first dimension is 0
\* raises the assertion error, its message starts with the final segment of
\* the path, and the record is left as it was: no key is written.
C5_ZeroHeightAlphaRejected ==
    [][(obj.cls = "LoadAlpha" /\ ncalls' = ncalls + 1 /\ DecodesZeroHeight(obj, results)) =>
          /\ err'.type = "AssertionError"
          /\ err'.msg[1] = PathName(results[KeyPath(obj.key)])
          /\ results' = results
          /\ AlphaKeys \cap DOMAIN results' = {}]_vars

\* C5 witness: a LoadAlpha call raised the assertion error naming e.png.
C5_Witness ==
    /\ obj.cls = "LoadAlpha" /\ Failed /\ err.type = "AssertionError"
    /\ err.msg[1] = "e.png"

\* C6: a LoadMask whose mask_mode is none of the four known modes is
\* constructed without error (given a mask_config that is None or a dict);
\* every call on it raises NotImplementedError naming the mode and leaves the
\* record unchanged, writing neither mask nor mask_bbox; the mode never changes.
C6_UnknownModeFailsAtCall ==
    /\ [](( /\ ctor.cls = "LoadMask" /\ ctor.mask_mode \notin KnownModes
            /\ ctor.mask_config.t \in {"None", "dict"}) =>
          /\ IsMask(obj) /\ obj.mask_mode = ctor.mask_mode
          /\ ncalls = 0 => err = NoErr
          /\ called =>
                /\ err.type = "NotImplementedError"
                /\ \E i \in 1..Len(err.msg) : err.msg[i] = obj.mask_mode
                /\ ~HasKey(results, "mask") /\ ~HasKey(results, "mask_bbox"))
    /\ [][(IsMask(obj) /\ obj.mask_mode \notin KnownModes /\ ncalls' = ncalls + 1) =>
             (results' = results /\ obj' = obj)]_vars

\* C6 witness: a LoadMask of unknown mode 'file' has been called twice.
C6_Witness ==
    /\ IsMask(obj) /\ obj.mask_mode = "file" /\ ncalls = 2 /\ Failed

\* C7 (as claimed): given img_shape = (h, w, ...), a tuple that starts with
\* height and width and may carry further entries, RandomLoadResizeBg draws an
\* index in [0, len(bg_list)), and writes under bg the background resized to
\* height h and width w.
C7_BgAcceptsShapeWithChannels ==
    (IsBg(obj) /\ called /\ obj.bg_list # <<>> /\ HasKey(results, "img_shape")
        /\ Len(results["img_shape"].items) >= 2) =>
        /\ err = NoErr
        /\ drawn >= 0 /\ drawn < Len(obj.bg_list)
        /\ HasKey(results, "bg")
        /\ results["bg"].shape[1] = results["img_shape"].items[1]
        /\ results["bg"].shape[2] = results["img_shape"].items[2]

ListLike == {"list", "tuple"}

\* C8 (as claimed): the list loader raises no type error when {key}_path is any
\* list-like sequence of paths (a list or a tuple), and raises a type error,
\* writing no key, when it is not list-like.
C8_ListLikeAccepted ==
    [][(obj.cls = "LoadImageFromFileList" /\ ncalls' = ncalls + 1
            /\ HasKey(results, KeyPath(obj.key))) =>
          IF results[KeyPath(obj.key)].t \in ListLike
          THEN err'.type # "TypeError"
          ELSE err'.type = "TypeError" /\ results' = results]_vars

\* C8 (amended): the list loader raises no type error when {key}_path is a
\* list; when it is anything else, a tuple of paths and a single path string
\* included, the call raises a type error and writes no key.
C8_OnlyListAccepted ==
    [][(obj.cls = "LoadImageFromFileList" /\ ncalls' = ncalls + 1
            /\ HasKey(results, KeyPath(obj.key))) =>
          IF results[KeyPath(obj.key)].t = "list"
          THEN err'.type # "TypeError"
          ELSE err'.type = "TypeError" /\ results' = results]_vars

\* C8 witness: the list loader raised a type error on a tuple of paths.
C8_Witness ==
    /\ obj.cls = "LoadImageFromFileList" /\ Failed /\ err.type = "TypeError"
    /\ results[KeyPath(obj.key)].t = "tuple"

\* C9: in 'bbox' mode a call that returns has written under mask_bbox a box
\* (top, left, height, width) inside the configured img_shape = (H, W), and
\* under mask a mask of shape (H, W, 1) with exactly height*width hole pixels,
\* all inside that box; in the other three modes a call that returns has
\* written mask and has not written mask_bbox.
C9_BboxMaskMatchesBox ==
    (IsMask(obj) /\ Returned) =>
        IF obj.mask_mode = "bbox"
        THEN LET b == results["mask_bbox"].items
                 s == obj.mask_config["img_shape"]
                 m == results["mask"]
             IN  /\ 0 <= b[1] /\ b[1] + b[3] <= s[1]
                 /\ 0 <= b[2] /\ b[2] + b[4] <= s[2]
                 /\ m.shape = <<s[1], s[2], 1>>
                 /\ Cardinality(m.holes) = b[3] * b[4]
                 /\ \A p \in m.holes :
                        /\ b[1] <= p[1] /\ p[1] < b[1] + b[3]
                        /\ b[2] <= p[2] /\ p[2] < b[2] + b[4]
        ELSE HasKey(results, "mask") /\ ~HasKey(results, "mask_bbox")

\* C9 witness: a 'bbox' call wrote a box of height 1 and width 2 that does not
\* start at the origin.
C9_Witness ==
    /\ IsMask(obj) /\ obj.mask_mode = "bbox" /\ Returned
    /\ results["mask_bbox"].items[3] = 1 /\ results["mask_bbox"].items[4] = 2
    /\ results["mask_bbox"].items[1] > 0

\* C10: in 'set' mode a call that returns has written a 3-D mask with one
\* channel, of the height and width of the decoded file, holding the decoded
\* array's first channel; the path list and its size stay as construction
\* made them, and every file fetched is the element of the list at the index
\* drawn.
C10_SetMaskIsFirstChannel ==
    IsSetMask(obj) =>
        /\ obj.mask_list = Construct(ctor).self.mask_list
        /\ obj.mask_set_size = Len(obj.mask_list)
        /\ (called /\ fetched # <<>>) =>
               /\ Len(fetched) = 1
               /\ drawn >= 0 /\ drawn < obj.mask_set_size
               /\ fetched[1] = obj.mask_list[drawn + 1]
        /\ Returned =>
               LET raw == Decoded(1)
                   m == results["mask"]
               IN  /\ ndim(m) = 3
                   /\ m.shape = <<raw.shape[1], raw.shape[2], 1>>
                   /\ m.data = <<raw.data[1]>>

\* C10 witness: a 'set' call returned the first channel of a three-channel file.
C10_Witness ==
    /\ IsSetMask(obj) /\ Returned /\ ndim(Decoded(1)) = 3
    /\ Decoded(1).data = <<255, 0, 128>>
    /\ results["mask"].data = <<255>>

===========================================================================
